---- MODULE Spec2Model ----
(***************************************************************************)
(* A model of MOSFiT's band-pass filter module                             *)
(* (mosfit/modules/observables/filters.py): the registry built from the    *)
(* rule table, the resolution of a band request to a registry index, the   *)
(* loading of the transmission curves by the master and their replication  *)
(* to the workers of the pool, and the conversion of effective fluxes to   *)
(* magnitudes.                                                             *)
(*                                                                         *)
(* Conventions.  A Python str that is tested with `in` is a sequence of    *)
(* one-character strings (<<>> is '', <<"a","b">> is 'ab'); a str that is  *)
(* only compared with == is a TLA+ string.  A Python dict is a function    *)
(* whose DOMAIN is its set of keys, so that `key in dict` is               *)
(* key \in DOMAIN dict.  Python list positions 0..n-1 are the positions    *)
(* 1..n of a TLA+ sequence: a band index bi of the source is bi+1 here.    *)
(***************************************************************************)
EXTENDS Integers, Sequences, FiniteSets, TLC

VARIABLES
    filterrules,      \* the rule table read from filterrules.json
    bands,            \* kwargs['bands'] after listify
    unique_bands,     \* self._unique_bands
    band_insts,       \* self._band_insts
    band_bsets,       \* self._band_bsets
    band_systs,       \* self._band_systs
    band_names,       \* self._band_names
    phase,            \* "new" before Filters.__init__ has run, "built" after
    size,             \* self._pool.size: the number of workers, ranks 1..size
    files,            \* the filters directory: file name -> content
    pc,               \* per process: where it stands in the loop of line 65
    i,                \* per process: the loop variable i of line 65
    systems,          \* per process: the local list systems (line 67)
    si,               \* per process: the position of sys in systems (line 74)
    zps,              \* per process: the local list zps
    zpfluxes,         \* per process: the local list zpfluxes
    path,             \* per process: the local path
    rows,             \* per process: the local rows
    rank,             \* per process: the loop variable rank of line 130
    comm,             \* messages in flight: destination -> tag -> queue
    band_wavelengths, \* per process: self._band_wavelengths
    transmissions,    \* per process: self._transmissions
    min_waves,        \* per process: self._min_waves
    max_waves,        \* per process: self._max_waves
    filter_integrals, \* per process: self._filter_integrals
    band_offsets,     \* per process: self._band_offsets
    iolog,            \* history: the file and network operations, in order
    sentlog,          \* history: per destination, the (band, tag) sent to it
    recvlog,          \* history: per process, the (band, tag) it received
    self_bands,       \* self._bands
    band_indices,     \* self._band_indices
    dxs,              \* self._dxs
    dist_const,       \* self._dist_const
    self_luminosities, \* self._luminosities
    self_systems,     \* self._systems
    self_instruments, \* self._instruments
    self_bandsets,    \* self._bandsets
    call              \* the method call in progress and what it returns

regVars == <<filterrules, bands, unique_bands, band_insts, band_bsets,
             band_systs, band_names, phase>>

localVars == <<systems, si, zps, zpfluxes, path, rows, rank>>

derivedVars == <<band_wavelengths, transmissions, min_waves, max_waves,
                 filter_integrals, band_offsets>>

histVars == <<iolog, sentlog, recvlog>>

loadVars == <<size, files, pc, i, localVars, comm, derivedVars, histVars>>

procVars == <<self_bands, band_indices, dxs, dist_const, self_luminosities,
              self_systems, self_instruments, self_bandsets>>

vars == <<regVars, loadVars, procVars, call>>

(***************************************************************************)
(* Bounds of the model.                                                    *)
(***************************************************************************)
MaxRules == 2

(***************************************************************************)
(* Python helpers.                                                         *)
(***************************************************************************)
\* dict.get(key, default)
Get(d, key, default) == IF key \in DOMAIN d THEN d[key] ELSE default

\* `s in t` for two Python strings: s occurs in t as a substring.
IsIn(s, t) ==
    \E k \in 0..(Len(t) - Len(s)) : SubSeq(t, k + 1, k + Len(s)) = s

RECURSIVE Flatten(_)
Flatten(ss) == IF ss = <<>> THEN <<>> ELSE Head(ss) \o Flatten(Tail(ss))

(***************************************************************************)
(* The rule table.  A rule is a dict with the optional keys 'systems',     *)
(* 'instruments' and 'bandsets' (lists of str) and the key 'filters', an   *)
(* ordered dict from a filter name to the filter's base definition.        *)
(***************************************************************************)
Empty == <<>>
StrA == <<"a">>
StrB == <<"b">>
StrAB == <<"a", "b">>

Filter(name, def) == [key |-> name, val |-> def]

RuleChoices ==
    { [filters |-> <<Filter("V", [path |-> <<"V.dat">>])>>],
      [systems |-> <<StrA>>, instruments |-> <<StrA>>,
       filters |-> <<Filter("V", [path |-> <<"V.dat">>])>>],
      [systems |-> <<StrA, StrB>>,
       filters |-> <<Filter("V", [path |-> <<"V.dat">>]),
                     Filter("R", [path |-> <<"R.dat">>, offset |-> 4])>>],
      [systems |-> <<StrAB>>, instruments |-> <<StrA, StrB>>,
       bandsets |-> <<StrB>>,
       filters |-> <<Filter("R", [path |-> <<"R.dat">>])>>],
      [instruments |-> <<StrB>>, bandsets |-> <<StrA, StrB>>,
       filters |-> <<Filter("V", [path |-> <<"R.dat">>])>>] }

RuleTables == UNION { [1..n -> RuleChoices] : n \in 0..MaxRules }

BandRequests == { <<"">>, <<"V">>, <<"R">>, <<"V", "R">> }

(***************************************************************************)
(* Filters.__init__, lines 34-57: the expansion of the rule table.         *)
(***************************************************************************)
\* sysinstperms of a rule: systems outermost, bandsets innermost.
sysinstperms(rule) ==
    LET S == Get(rule, "systems", <<Empty>>)
        I == Get(rule, "instruments", <<Empty>>)
        B == Get(rule, "bandsets", <<Empty>>)
    IN  [k \in 1..(Len(S) * Len(I) * Len(B)) |->
            << S[((k - 1) \div (Len(I) * Len(B))) + 1],
               I[(((k - 1) \div Len(B)) % Len(I)) + 1],
               B[((k - 1) % Len(B)) + 1] >>]

\* The executions of the body of the innermost loop (lines 46-50), in order:
\* which rule's filter is appended, at which permutation.
Appends(rules, bnds) ==
    Flatten([bi \in 1..Len(bnds) |->
      Flatten([ri \in 1..Len(rules) |->
        Flatten([fi \in 1..Len(Get(rules[ri], "filters", <<>>)) |->
          IF bnds[bi] = rules[ri].filters[fi].key \/ bnds[bi] = ""
          THEN [pi \in 1..Len(sysinstperms(rules[ri])) |->
                   [rule |-> ri, filter |-> fi,
                    perm |-> sysinstperms(rules[ri])[pi]]]
          ELSE <<>>])])])

\* The dict objects of the rule table: rule['filters'][bnd] is one object,
\* however many times it is appended to band_list.
FilterObjects(rules) ==
    UNION { { <<ri, fi>> : fi \in 1..Len(Get(rules[ri], "filters", <<>>)) } :
            ri \in 1..Len(rules) }

InitialHeap(rules) ==
    [o \in FilterObjects(rules) |-> rules[o[1]].filters[o[2]].val]

\* Lines 46-50 for one append: band_list grows by a reference to the rule's
\* own dict, and that dict (not a copy) is given the qualifiers and the name.
AppendBand(rules, st, ev) ==
    LET o == <<ev.rule, ev.filter>>
    IN  [band_list |-> Append(st.band_list, o),
         heap |-> [st.heap EXCEPT ![o] =
                     [systems |-> ev.perm[1], instruments |-> ev.perm[2],
                      bandsets |-> ev.perm[3],
                      name |-> rules[ev.rule].filters[ev.filter].key] @@ @]]

RECURSIVE RunAppends(_, _, _)
RunAppends(rules, st, evs) ==
    IF evs = <<>> THEN st
    ELSE RunAppends(rules, AppendBand(rules, st, Head(evs)), Tail(evs))

\* self._unique_bands as it stands at line 52: each position dereferenced.
BuildRegistry(rules, bnds) ==
    LET st == RunAppends(rules, [band_list |-> <<>>,
                                 heap |-> InitialHeap(rules)],
                         Appends(rules, bnds))
    IN  [k \in 1..Len(st.band_list) |-> st.heap[st.band_list[k]]]

(***************************************************************************)
(* Filters.find_band_index, lines 152-166.                                 *)
(***************************************************************************)
ValueError == 0

Tier1(bi, name, instrument, bandset, system) ==
    /\ name = unique_bands[bi].name
    /\ IsIn(instrument, band_insts[bi])
    /\ IsIn(bandset, band_bsets[bi])
    /\ IsIn(system, band_systs[bi])

Tier2(bi, name, instrument, bandset, system) ==
    /\ name = unique_bands[bi].name
    /\ IsIn(instrument, band_insts[bi])
    /\ IsIn(system, band_systs[bi])

Tier3(bi, name, instrument, bandset, system) ==
    /\ name = unique_bands[bi].name
    /\ IsIn(system, band_systs[bi])

Tier4(bi, name, instrument, bandset, system) ==
    /\ name = unique_bands[bi].name
    /\ IsIn(Empty, band_insts[bi])
    /\ IsIn(Empty, band_bsets[bi])
    /\ IsIn(Empty, band_systs[bi])

RECURSIVE FindFrom(_, _, _, _, _)
FindFrom(bi, name, instrument, bandset, system) ==
    IF bi > Len(unique_bands) THEN ValueError
    ELSE IF \/ Tier1(bi, name, instrument, bandset, system)
            \/ Tier2(bi, name, instrument, bandset, system)
            \/ Tier3(bi, name, instrument, bandset, system)
            \/ Tier4(bi, name, instrument, bandset, system)
         THEN bi
         ELSE FindFrom(bi + 1, name, instrument, bandset, system)

find_band_index(name, instrument, bandset, system) ==
    FindFrom(1, name, instrument, bandset, system)

(***************************************************************************)
(* Numbers.  Wavelengths and transmissions are integers.  A logarithm is   *)
(* held in thousandths (log10 of 2 is 301) and a magnitude or an offset in *)
(* units of 0.0005 mag, so that MAG_FAC = 2.5 mag per unit of log10 is 5   *)
(* units of magnitude per thousandth.                                      *)
(***************************************************************************)
Log10Table ==
    <<    0,  301,  477,  602,  699,  778,  845,  903,
        954, 1000, 1041, 1079, 1114, 1146, 1176, 1204,
       1230, 1255, 1279, 1301, 1322, 1342, 1362, 1380,
       1398, 1415, 1431, 1447, 1462, 1477, 1491, 1505,
       1519, 1531, 1544, 1556, 1568, 1580, 1591, 1602,
       1613, 1623, 1633, 1643, 1653, 1663, 1672, 1681,
       1690, 1699, 1708, 1716, 1724, 1732, 1740, 1748,
       1756, 1763, 1771, 1778, 1785, 1792, 1799, 1806,
       1813, 1820, 1826, 1833, 1839, 1845, 1851, 1857,
       1863, 1869, 1875, 1881, 1886, 1892, 1898, 1903,
       1908, 1914, 1919, 1924, 1929, 1934, 1940, 1944,
       1949, 1954, 1959, 1964, 1968, 1973, 1978, 1982,
       1987, 1991, 1996, 2000, 2004, 2009, 2013, 2017,
       2021, 2025, 2029, 2033, 2037, 2041, 2045, 2049,
       2053, 2057, 2061, 2064, 2068, 2072, 2076, 2079,
       2083, 2086, 2090, 2093, 2097, 2100, 2104, 2107 >>

\* np.log10 of the quotient num/den of two positive integers.
log10(num, den) == Log10Table[num] - Log10Table[den]

RECURSIVE Sum(_)
Sum(xs) == IF xs = <<>> THEN 0 ELSE Head(xs) + Sum(Tail(xs))

Min(xs) == CHOOSE m \in { xs[k] : k \in 1..Len(xs) } :
               \A k \in 1..Len(xs) : m <= xs[k]
Max(xs) == CHOOSE m \in { xs[k] : k \in 1..Len(xs) } :
               \A k \in 1..Len(xs) : m >= xs[k]

\* np.trapz(y, x).  The curves of the model have even wavelength steps, so
\* that the halving is exact.
trapz(y, x) ==
    Sum([k \in 1..(Len(x) - 1) |-> (x[k + 1] - x[k]) * (y[k + 1] + y[k])])
        \div 2

(***************************************************************************)
(* The filters directory and the SVO catalog.  A file name is the sequence *)
(* of the parts of its name; a curve file is its rows, each row its        *)
(* columns; a catalog file is its params and its table.                    *)
(***************************************************************************)
Param(n, v) == [name |-> n, value |-> v]

\* What the SVO service answers for a PhotCalID.
Catalog(sp) ==
    CASE sp = <<"G", "AB">> ->
           [params |-> <<Param("WavelengthEff", 6), Param("ZeroPoint", 8)>>,
            table |-> << <<4, 2>>, <<6, 4>>, <<8, 2>> >>]
      [] sp = <<"G", "Vega">> ->
           [params |-> <<Param("WavelengthEff", 6), Param("ZeroPoint", 4)>>,
            table |-> << <<4, 2>>, <<6, 4>>, <<8, 2>> >>]
      [] sp = <<"H", "AB">> ->
           [params |-> <<Param("ZeroPoint", 2)>>,
            table |-> << <<10, 2, 0>>, <<12, 2, 0>> >>]

LocalFiles ==
    (<<"V.dat">> :> << <<4, 2>>, <<6, 2>>, <<8, 2>> >>) @@
    (<<"R.dat">> :> << <<8, 0, 7>>, <<10, 4, 7>>, <<12, 2, 7>> >>) @@
    (<<"U.dat">> :> << <<6, 4>>, <<2, 2>>, <<4, 2>> >>)

\* The file names of lines 77-82.
DatPath(sp) == sp \o <<".dat">>
XmlPath(sp) == sp \o <<".xml">>

\* Lines 114-118: the table written as text, one row per line, the columns
\* joined by a blank.
WriteTable(table) == table

\* Lines 126-129: csv.reader over the file, the first two columns of each
\* row converted to float.
ReadRows(content) ==
    [k \in 1..Len(content) |-> SubSeq(content[k], 1, 2)]

\* The caches the filters directory may hold before the run.
CachedXml(sps) == [f \in { XmlPath(sp) : sp \in sps } |->
                      Catalog(SubSeq(f, 1, Len(f) - 1))]
CachedDat(sps) == [f \in { DatPath(sp) : sp \in sps } |->
                      WriteTable(Catalog(SubSeq(f, 1, Len(f) - 1)).table)]

AllSvoPaths == { <<"G", "AB">>, <<"G", "Vega">>, <<"H", "AB">> }

InitialFiles ==
    { LocalFiles,
      CachedXml(AllSvoPaths) @@ LocalFiles,
      CachedDat(AllSvoPaths) @@ LocalFiles,
      CachedXml({<<"G", "AB">>}) @@ LocalFiles }

(***************************************************************************)
(* Filters.__init__, lines 65-150: the loading loop, one process at a      *)
(* time.  Process 0 is the master, processes 1..size are the workers.      *)
(***************************************************************************)
Procs == 0..size

\* A pool whose every process takes itself for the master.
is_master_always(p) == TRUE

\* self._pool.is_master()
is_master(p) == p = 0

\* Line 70 and lines 75-76.
photsystem(band) == band.SVO[Len(band.SVO)]
svopath(band, sys) == SubSeq(band.SVO, 1, Len(band.SVO) - 1) \o <<sys>>

IoEvent(p, op, f) == [proc |-> p, band |-> i[p], op |-> op, file |-> f]

\* Lines 65-73, 122-123 and 133: the head of an iteration.
For(p) ==
    /\ p \in Procs
    /\ pc[p] = "for"
    /\ IF i[p] > Len(unique_bands)
       THEN /\ pc' = [pc EXCEPT ![p] = "done"]
            /\ UNCHANGED <<systems, si, zps, zpfluxes, path>>
       ELSE LET band == unique_bands[i[p]]
            IN  IF is_master(p)
                THEN /\ zps' = [zps EXCEPT ![p] = <<0>>]
                     /\ IF "SVO" \in DOMAIN band
                        THEN /\ systems' = [systems EXCEPT ![p] =
                                  IF photsystem(band) # "AB"
                                  THEN <<"AB", photsystem(band)>>
                                  ELSE <<"AB">>]
                             /\ zpfluxes' = [zpfluxes EXCEPT ![p] = <<>>]
                             /\ si' = [si EXCEPT ![p] = 1]
                             /\ pc' = [pc EXCEPT ![p] = "sys"]
                             /\ UNCHANGED path
                        ELSE /\ systems' = [systems EXCEPT ![p] = <<"AB">>]
                             /\ path' = [path EXCEPT ![p] = band.path]
                             /\ pc' = [pc EXCEPT ![p] = "read"]
                             /\ UNCHANGED <<zpfluxes, si>>
                ELSE /\ pc' = [pc EXCEPT ![p] = "recv3"]
                     /\ UNCHANGED <<systems, si, zps, zpfluxes, path>>
    /\ UNCHANGED <<regVars, size, files, i, rows, rank, comm, derivedVars,
                   histVars, procVars, call>>

\* Lines 103-112: the ZeroPoint params of the catalog file, in order.
RECURSIVE ZeroPoints(_, _, _)
ZeroPoints(params, sys, st) ==
    IF params = <<>> THEN st
    ELSE LET param == Head(params)
             fl == Append(st.zpfluxes, param.value)
         IN  ZeroPoints(Tail(params), sys,
                IF param.name = "ZeroPoint"
                THEN [zpfluxes |-> fl,
                      zps |-> IF sys # "AB"
                              THEN Append(st.zps,
                                     5 * log10(fl[1], fl[Len(fl)]))
                              ELSE st.zps]
                ELSE st)

\* A test of the curve file of the path in the place of its catalog file.
exists_dat_path(sp) == DatPath(sp) \in DOMAIN files

\* Line 83: os.path.exists(xml_path).
exists_xml_path(sp) == XmlPath(sp) \in DOMAIN files

\* Lines 74-121: one iteration of the loop over systems.  The download of
\* line 87 succeeds or fails (a timeout, no network).
Sys(p) ==
    /\ p \in Procs
    /\ pc[p] = "sys"
    /\ LET band == unique_bands[i[p]]
           sys == systems[p][si[p]]
           sp == svopath(band, sys)
           cached == exists_xml_path(sp)
       IN  \E ok \in IF cached THEN {TRUE} ELSE BOOLEAN :
             LET files1 == IF ~cached /\ ok
                           THEN (XmlPath(sp) :> Catalog(sp)) @@ files
                           ELSE files
                 log1 == IF cached THEN iolog
                         ELSE IF ok
                         THEN iolog \o <<IoEvent(p, "fetch", sp),
                                         IoEvent(p, "write", XmlPath(sp))>>
                         ELSE iolog \o <<IoEvent(p, "fetch", sp),
                                         IoEvent(p, "warning", sp)>>
             IN  /\ path' = [path EXCEPT ![p] = DatPath(sp)]
                 /\ IF XmlPath(sp) \in DOMAIN files1
                    THEN LET vo_tab == files1[XmlPath(sp)]
                             st == ZeroPoints(vo_tab.params, sys,
                                     [zpfluxes |-> zpfluxes[p],
                                      zps |-> zps[p]])
                         IN  /\ zpfluxes' = [zpfluxes EXCEPT ![p] = st.zpfluxes]
                             /\ zps' = [zps EXCEPT ![p] = st.zps]
                             /\ files' = (DatPath(sp) :>
                                            WriteTable(vo_tab.table)) @@ files1
                             /\ iolog' = log1 \o
                                  <<IoEvent(p, "voparse", XmlPath(sp)),
                                    IoEvent(p, "write", DatPath(sp))>>
                             /\ si' = [si EXCEPT ![p] = @ + 1]
                             /\ pc' = [pc EXCEPT ![p] =
                                  IF si[p] < Len(systems[p])
                                  THEN "sys" ELSE "read"]
                    ELSE /\ pc' = [pc EXCEPT ![p] = "RuntimeError"]
                         /\ files' = files1
                         /\ iolog' = log1
                         /\ UNCHANGED <<zpfluxes, zps, si>>
    /\ UNCHANGED <<regVars, size, i, systems, rows, rank, comm, derivedVars,
                   sentlog, recvlog, procVars, call>>

\* Lines 125-130: the curve file is read.
Read(p) ==
    /\ p \in Procs
    /\ pc[p] = "read"
    /\ IF path[p] \in DOMAIN files
       THEN /\ rows' = [rows EXCEPT ![p] = ReadRows(files[path[p]])]
            /\ iolog' = Append(iolog, IoEvent(p, "read", path[p]))
            /\ rank' = [rank EXCEPT ![p] = 1]
            /\ pc' = [pc EXCEPT ![p] =
                        IF size >= 1 THEN "send3" ELSE "populate"]
       ELSE /\ pc' = [pc EXCEPT ![p] = "IOError"]
            /\ UNCHANGED <<rows, iolog, rank>>
    /\ UNCHANGED <<regVars, size, files, i, systems, si, zps, zpfluxes, path,
                   comm, derivedVars, sentlog, recvlog, procVars, call>>

Message(p, data) == [source |-> p, band |-> i[p], data |-> data]

\* A send that addresses rank 1 whatever its dest.
send_rank1(p, data, dest, tag) ==
    /\ comm' = [comm EXCEPT ![1][tag] = Append(@, Message(p, data))]
    /\ sentlog' = [sentlog EXCEPT ![1] =
                      Append(@, [band |-> i[p], tag |-> tag])]

\* comm.send(obj, dest, tag): the message joins the queue of its
\* destination and tag.
send(p, data, dest, tag) ==
    /\ comm' = [comm EXCEPT ![dest][tag] = Append(@, Message(p, data))]
    /\ sentlog' = [sentlog EXCEPT ![dest] =
                      Append(@, [band |-> i[p], tag |-> tag])]

\* Line 131.
Send3(p) ==
    /\ p \in Procs
    /\ pc[p] = "send3"
    /\ send(p, rows[p], rank[p], 3)
    /\ pc' = [pc EXCEPT ![p] = "send4"]
    /\ UNCHANGED <<regVars, size, files, i, localVars, derivedVars, iolog,
                   recvlog, procVars, call>>

\* Line 132, and the step of the loop of line 130.
Send4(p) ==
    /\ p \in Procs
    /\ pc[p] = "send4"
    /\ send(p, zps[p], rank[p], 4)
    /\ rank' = [rank EXCEPT ![p] = @ + 1]
    /\ pc' = [pc EXCEPT ![p] = IF rank[p] < size THEN "send3" ELSE "populate"]
    /\ UNCHANGED <<regVars, size, files, i, systems, si, zps, zpfluxes, path,
                   rows, derivedVars, iolog, recvlog, procVars, call>>

\* comm.recv(source, tag) matches the messages of one source and tag in the
\* order they were sent: the position in the queue of the message received,
\* 0 when none has arrived.
Matching(queue, source) ==
    { k \in 1..Len(queue) : queue[k].source = source }

\* A receive that takes the newest matching message.
recv_newest(queue, source) ==
    IF Matching(queue, source) = {} THEN 0
    ELSE CHOOSE k \in Matching(queue, source) :
             \A j \in Matching(queue, source) : k >= j

recv(queue, source) ==
    IF Matching(queue, source) = {} THEN 0
    ELSE CHOOSE k \in Matching(queue, source) :
             \A j \in Matching(queue, source) : k <= j

\* A receive that leaves the message in the queue.
Remove_none(queue, k) == queue

Remove(queue, k) == SubSeq(queue, 1, k - 1) \o SubSeq(queue, k + 1, Len(queue))

\* Line 134: blocks until the message is there, and takes it.
Recv3(p) ==
    /\ p \in Procs
    /\ pc[p] = "recv3"
    /\ LET k == recv(comm[p][3], 0)
       IN  /\ k # 0
           /\ rows' = [rows EXCEPT ![p] = comm[p][3][k].data]
           /\ comm' = [comm EXCEPT ![p][3] = Remove(@, k)]
           /\ recvlog' = [recvlog EXCEPT ![p] =
                 Append(@, [band |-> i[p], tag |-> 3,
                            sent |-> comm[p][3][k].band])]
    /\ pc' = [pc EXCEPT ![p] = "recv4"]
    /\ UNCHANGED <<regVars, size, files, i, systems, si, zps, zpfluxes, path,
                   rank, derivedVars, iolog, sentlog, procVars, call>>

\* Line 135.
Recv4(p) ==
    /\ p \in Procs
    /\ pc[p] = "recv4"
    /\ LET k == recv(comm[p][4], 0)
       IN  /\ k # 0
           /\ zps' = [zps EXCEPT ![p] = comm[p][4][k].data]
           /\ comm' = [comm EXCEPT ![p][4] = Remove(@, k)]
           /\ recvlog' = [recvlog EXCEPT ![p] =
                 Append(@, [band |-> i[p], tag |-> 4,
                            sent |-> comm[p][4][k].band])]
    /\ pc' = [pc EXCEPT ![p] = "populate"]
    /\ UNCHANGED <<regVars, size, files, i, systems, si, zpfluxes, path, rows,
                   rank, derivedVars, iolog, sentlog, procVars, call>>

\* The two membership tests in the other order.
Offset_svo_first(band, zpsOf, old) ==
    IF "SVO" \in DOMAIN band THEN zpsOf[Len(zpsOf)]
    ELSE IF "offset" \in DOMAIN band THEN band.offset
    ELSE old

\* Lines 144-147: the offset of a band, given the zps at hand and the value
\* the entry holds (0.0 since line 63).
Offset(band, zpsOf, old) ==
    IF "offset" \in DOMAIN band THEN band.offset
    ELSE IF "SVO" \in DOMAIN band THEN zpsOf[Len(zpsOf)]
    ELSE old

\* Lines 137-147: the registry entry is populated from rows and zps.
Populate(p) ==
    /\ p \in Procs
    /\ pc[p] = "populate"
    /\ LET band == unique_bands[i[p]]
           wl == [k \in 1..Len(rows[p]) |-> rows[p][k][1]]
           tr == [k \in 1..Len(rows[p]) |-> rows[p][k][2]]
       IN  /\ band_wavelengths' = [band_wavelengths EXCEPT ![p][i[p]] = wl]
           /\ transmissions' = [transmissions EXCEPT ![p][i[p]] = tr]
           /\ min_waves' = [min_waves EXCEPT ![p][i[p]] = Min(wl)]
           /\ max_waves' = [max_waves EXCEPT ![p][i[p]] = Max(wl)]
           /\ filter_integrals' =
                 [filter_integrals EXCEPT ![p][i[p]] = trapz(tr, wl)]
           /\ band_offsets' = [band_offsets EXCEPT ![p][i[p]] =
                 Offset(band, zps[p], @)]
    /\ i' = [i EXCEPT ![p] = @ + 1]
    /\ pc' = [pc EXCEPT ![p] = "for"]
    /\ UNCHANGED <<regVars, size, files, localVars, comm, histVars, procVars, call>>

(***************************************************************************)
(* Filters.__init__, lines 21-63: the registry is expanded and the derived *)
(* fields are allocated.  Every process of the pool constructs the object  *)
(* from the same rule table, so the registry is held once.                 *)
(***************************************************************************)
Filters_init ==
    /\ phase = "new"
    /\ \E reg \in {BuildRegistry(filterrules, bands)} :
       LET n == Len(reg)
       IN  /\ unique_bands' = reg
           /\ band_insts' = [k \in 1..n |-> reg[k].instruments]
           /\ band_bsets' = [k \in 1..n |-> reg[k].bandsets]
           /\ band_systs' = [k \in 1..n |-> reg[k].systems]
           /\ band_names' = [k \in 1..n |-> reg[k].name]
           /\ band_wavelengths' = [p \in Procs |-> [k \in 1..n |-> <<>>]]
           /\ transmissions' = [p \in Procs |-> [k \in 1..n |-> <<>>]]
           /\ min_waves' = [p \in Procs |-> [k \in 1..n |-> 0]]
           /\ max_waves' = [p \in Procs |-> [k \in 1..n |-> 0]]
           /\ filter_integrals' = [p \in Procs |-> [k \in 1..n |-> 0]]
           /\ band_offsets' = [p \in Procs |-> [k \in 1..n |-> 0]]
    /\ phase' = "built"
    /\ pc' = [p \in Procs |-> "for"]
    /\ i' = [p \in Procs |-> 1]
    /\ UNCHANGED <<filterrules, bands, size, files, localVars, comm, histVars,
                   procVars, call>>

NoCall == [op |-> "none"]

\* The state before Filters.__init__ runs, for a pool of n workers.
Fresh(n) ==
    /\ unique_bands = <<>>
    /\ band_insts = <<>>
    /\ band_bsets = <<>>
    /\ band_systs = <<>>
    /\ band_names = <<>>
    /\ phase = "new"
    /\ size = n
    /\ pc = [p \in 0..n |-> "new"]
    /\ i = [p \in 0..n |-> 0]
    /\ systems = [p \in 0..n |-> <<>>]
    /\ si = [p \in 0..n |-> 0]
    /\ zps = [p \in 0..n |-> <<>>]
    /\ zpfluxes = [p \in 0..n |-> <<>>]
    /\ path = [p \in 0..n |-> <<>>]
    /\ rows = [p \in 0..n |-> <<>>]
    /\ rank = [p \in 0..n |-> 0]
    /\ comm = [w \in 1..n |-> (3 :> <<>>) @@ (4 :> <<>>)]
    /\ band_wavelengths = <<>>
    /\ transmissions = <<>>
    /\ min_waves = <<>>
    /\ max_waves = <<>>
    /\ filter_integrals = <<>>
    /\ band_offsets = <<>>
    /\ iolog = <<>>
    /\ sentlog = [w \in 1..n |-> <<>>]
    /\ recvlog = [p \in 0..n |-> <<>>]
    /\ self_bands = <<>>
    /\ band_indices = <<>>
    /\ dxs = <<>>
    /\ dist_const = 0
    /\ self_luminosities = <<>>
    /\ self_systems = <<>>
    /\ self_instruments = <<>>
    /\ self_bandsets = <<>>
    /\ call = NoCall

(***************************************************************************)
(* The pool specification: a master and its workers construct the object.  *)
(***************************************************************************)
MaxWorkers == 2

G_Vega == [SVO |-> <<"G", "Vega">>]
H_AB == [SVO |-> <<"H", "AB">>]

LoadTables ==
    { << [filters |-> <<Filter("V", [path |-> <<"V.dat">>]),
                        Filter("R", [path |-> <<"R.dat">>, offset |-> 4])>>] >>,
      << [filters |-> <<Filter("G", G_Vega)>>] >>,
      << [filters |-> <<Filter("H", H_AB),
                        Filter("g", [SVO |-> <<"G", "Vega">>,
                                     offset |-> 6]),
                        Filter("G", G_Vega)>>] >>,
      << [filters |-> <<Filter("V", [path |-> <<"V.dat">>])>>],
         [systems |-> <<StrA, StrB>>,
          filters |-> <<Filter("G", G_Vega)>>] >>,
      << [filters |-> <<Filter("G", G_Vega),
                        Filter("U", [path |-> <<"U.dat">>])>>] >> }

Init ==
    /\ filterrules \in LoadTables
    /\ bands = <<"">>
    /\ files \in InitialFiles
    /\ \E n \in 0..MaxWorkers : Fresh(n)

Step(p) ==
    \/ For(p)
    \/ Sys(p)
    \/ Read(p)
    \/ Send3(p)
    \/ Send4(p)
    \/ Recv3(p)
    \/ Recv4(p)
    \/ Populate(p)

Next == Filters_init \/ \E p \in 0..MaxWorkers : Step(p)

Spec == Init /\ [][Next]_vars

\* The processes of the pool keep running: the construction starts, and the
\* pool does not stop while one of its processes can take a step.
Fairness ==
    /\ WF_vars(Filters_init)
    /\ WF_vars(\E p \in 0..MaxWorkers : Step(p))

\* The pool with a registry of two local bands or of a catalog band and a
\* local band, the filters directory without and with the catalog files.
FairInit ==
    /\ filterrules \in
         { << [filters |-> <<Filter("V", [path |-> <<"V.dat">>]),
                             Filter("R", [path |-> <<"R.dat">>,
                                          offset |-> 4])>>] >>,
           << [filters |-> <<Filter("G", G_Vega),
                             Filter("U", [path |-> <<"U.dat">>])>>] >> }
    /\ bands = <<"">>
    /\ files \in { LocalFiles, CachedXml(AllSvoPaths) @@ LocalFiles }
    /\ \E n \in 0..MaxWorkers : Fresh(n)

SpecFair == FairInit /\ [][Next]_vars /\ Fairness

(***************************************************************************)
(* The registry specification: the rule table and the requested bands are  *)
(* drawn, one process constructs the object from local curve files, and    *)
(* bands are resolved against it.                                          *)
(***************************************************************************)
Names == {"V", "R", "X"}
Quals == {Empty, StrA, StrB, StrAB}

Constructed == phase = "built" /\ pc[0] = "done"

RegInit ==
    /\ filterrules \in RuleTables
    /\ bands \in BandRequests
    /\ files = LocalFiles
    /\ Fresh(0)

\* A call of find_band_index on the constructed object.
FindBandIndex ==
    /\ Constructed
    /\ call = NoCall
    /\ \E name \in Names, instrument \in Quals, bandset \in Quals,
          system \in Quals :
          call' = [op |-> "find_band_index", name |-> name,
                   instrument |-> instrument, bandset |-> bandset,
                   system |-> system,
                   ret |-> find_band_index(name, instrument, bandset, system)]
    /\ UNCHANGED <<regVars, loadVars, procVars>>

\* The call returns to its caller, or its exception reaches it.
Return ==
    /\ call # NoCall
    /\ call.op = "process" => call.raised # "line 180"
    /\ call' = NoCall
    /\ UNCHANGED <<regVars, loadVars, procVars>>

RegNext ==
    \/ Filters_init
    \/ For(0)
    \/ Read(0)
    \/ Populate(0)
    \/ FindBandIndex
    \/ Return

SpecReg == RegInit /\ [][RegNext]_vars

(***************************************************************************)
(* Filters.process and Filters.abmag, lines 168-201.  An effective flux is *)
(* the quotient of two integers, held in lowest terms.                     *)
(***************************************************************************)
RECURSIVE GCD(_, _)
GCD(a, b) == IF b = 0 THEN a ELSE GCD(b, a % b)

Frac(n, d) == IF n = 0 THEN [num |-> 0, den |-> 1]
              ELSE [num |-> n \div GCD(n, d), den |-> d \div GCD(n, d)]

Less(x, y) == x.num * y.den < y.num * x.den

\* log10 of 4 pi and of MPC_CGS = 3.0857e24, in thousandths.
LogFourPi == 1099
LogMpcCgs == 24489

\* AB_OFFSET = -48.6 mag and MAG_FAC = 2.5, in the units of the model.
AB_OFFSET == -97200
MAG_FAC == 5

\* Line 175: log10(FOUR_PI * (lumdist * MPC_CGS) ** 2).
DistConst(lumdist) == LogFourPi + 2 * (Log10Table[lumdist] + LogMpcCgs)

inf == [finite |-> FALSE]
Finite(v) == [finite |-> TRUE, value |-> v]

\* np.interp(x, xp, fp) at one x, for increasing xp: the end values outside
\* the curve, the chord between the two neighbours inside.  The curves of
\* the model make the division exact.
interp(x, xp, fp) ==
    IF x <= xp[1] THEN fp[1]
    ELSE IF x >= xp[Len(xp)] THEN fp[Len(xp)]
    ELSE LET j == CHOOSE j \in 1..(Len(xp) - 1) : xp[j] <= x /\ x < xp[j + 1]
         IN  fp[j] + ((fp[j + 1] - fp[j]) * (x - xp[j]))
                        \div (xp[j + 1] - xp[j])

\* Twice np.trapz(y, dx=dx).
trapz_dx_twice(y, dx) ==
    dx * Sum([k \in 1..(Len(y) - 1) |-> y[k + 1] + y[k]])

\* Line 200 with the sign of its logarithmic term turned.
abmag_element_negated(x, y) ==
    IF x.num = 0 THEN [mag |-> inf, log10_of |-> <<>>]
    ELSE [mag |-> Finite(AB_OFFSET - y
                         + MAG_FAC * (log10(x.num, x.den) - dist_const)),
          log10_of |-> <<x>>]

\* Lines 199-200 for one (x, y): the magnitude, and the argument of np.log10
\* when the else branch of the conditional expression is evaluated.
abmag_element(x, y) ==
    IF x.num = 0 THEN [mag |-> inf, log10_of |-> <<>>]
    ELSE [mag |-> Finite(AB_OFFSET - y
                         - MAG_FAC * (log10(x.num, x.den) - dist_const)),
          log10_of |-> <<x>>]

\* zip(eff_fluxes, offsets) stops at the shorter list.
ZipLen(xs, ys) == IF Len(xs) <= Len(ys) THEN Len(xs) ELSE Len(ys)

abmag(eff_fluxes, offsets) ==
    [k \in 1..ZipLen(eff_fluxes, offsets) |->
        abmag_element(eff_fluxes[k], offsets[k]).mag]

log10_args(eff_fluxes, offsets) ==
    Flatten([k \in 1..ZipLen(eff_fluxes, offsets) |->
                abmag_element(eff_fluxes[k], offsets[k]).log10_of])

\* Line 170: list(map(self.find_band_index, self._bands)): the name alone
\* is passed, the other parameters take their default ''.
BandIndices(all_bands) ==
    [k \in 1..Len(all_bands) |->
        find_band_index(all_bands[k], Empty, Empty, Empty)]

\* Lines 171-174: one dx per element of band_indices, appended in its order.
Dxs(indices, samplewavelengths) ==
    [k \in 1..Len(indices) |->
        samplewavelengths[indices[k]][2] - samplewavelengths[indices[k]][1]]

\* Lines 183-191 for one li, given the band index bi and the step dx.
EffFlux(bi, dx, samplewavelengths, sed) ==
    LET wavs == samplewavelengths[bi]
        itrans == [k \in 1..Len(wavs) |->
                      interp(wavs[k], band_wavelengths[0][bi],
                             transmissions[0][bi])]
        yvals == [k \in 1..ZipLen(itrans, sed) |-> itrans[k] * sed[k]]
    IN  Frac(trapz_dx_twice(yvals, dx), 2 * filter_integrals[0][bi])

\* The sampling grid a collaborator makes for a band from band_wave_ranges.
Grid(lo, hi, step) ==
    [k \in 1..((hi - lo) \div step + 1) |-> lo + (k - 1) * step]

MaxObs == 2

Observations ==
    [name : {"V", "R"},
     qual : {Empty, StrA, StrB},
     sed : 0..2]

\* kwargs['samplewavelengths'] and kwargs['seds'] of a call: one grid per
\* registry band, with the band's step; one flat SED per observation, on
\* the grid of the band the observation resolved to.
SampleWavelengths(steps) ==
    [b \in 1..Len(unique_bands) |->
        Grid(min_waves[0][b], max_waves[0][b], steps[b])]

Seds(obs, indices, samplewavelengths) ==
    [k \in 1..Len(obs) |->
        [j \in 1..Len(samplewavelengths[indices[k]]) |-> obs[k].sed]]

\* An assignment that takes the registry's list of names for its target.
Line169_band_names(all_bands) ==
    [self_bands |-> self_bands, band_names |-> all_bands]

\* Line 169: self._bands = kwargs['all_bands'], as the fields it leaves.
Line169(all_bands) ==
    [self_bands |-> all_bands, band_names |-> band_names]

\* Filters.process(**kwargs), lines 169-179, for the observations obs (band
\* name, instrument and system, and a flat SED), sampling steps per band
\* and a luminosity distance in Mpc.  The model follows the first
\* evaluation on the constructed object: process assigns every field it
\* reads before it reads it, so a later call starts from the same registry.
Process ==
    /\ Constructed
    /\ call = NoCall
    /\ self_bands = <<>>
    /\ \E n \in 1..MaxObs : \E obs \in [1..n -> Observations] :
       \E steps \in [1..Len(unique_bands) -> {1, 2}] : \E lumdist \in {1, 10} :
         LET all_bands == [k \in 1..n |-> obs[k].name]
             indices == BandIndices(all_bands)
         IN  /\ self_bands' = Line169(all_bands).self_bands
             /\ band_names' = Line169(all_bands).band_names
             /\ IF \E k \in 1..n : indices[k] = ValueError
                THEN /\ call' = [op |-> "process", obs |-> obs,
                                 steps |-> steps, raised |-> "ValueError"]
                     /\ UNCHANGED <<band_indices, dxs, dist_const,
                                    self_luminosities, self_systems,
                                    self_instruments, self_bandsets>>
                ELSE /\ band_indices' = indices
                     /\ dxs' = Dxs(indices, SampleWavelengths(steps))
                     /\ dist_const' = DistConst(lumdist)
                     /\ self_luminosities' = [k \in 1..n |-> 1]
                     /\ self_systems' = [k \in 1..n |-> obs[k].qual]
                     /\ self_instruments' = [k \in 1..n |-> obs[k].qual]
                     /\ self_bandsets' = [k \in 1..n |-> Empty]
                     /\ call' = [op |-> "process", obs |-> obs,
                                 steps |-> steps, raised |-> "line 180"]
    /\ UNCHANGED <<filterrules, bands, unique_bands, band_insts, band_bsets,
                   band_systs, phase, loadVars>>

\* Filters.process, lines 180-193: the loop over the luminosities and the
\* conversion to magnitudes.  dxs[bi] of line 191 raises IndexError when the
\* band index is not a position of dxs.
ProcessLoop ==
    /\ call.op = "process"
    /\ call.raised = "line 180"
    /\ LET n == Len(self_luminosities)
           samplewavelengths == SampleWavelengths(call.steps)
           seds == Seds(call.obs, band_indices, samplewavelengths)
       IN  IF \E li \in 1..n : band_indices[li] > Len(dxs)
           THEN call' = [call EXCEPT !.raised = "IndexError"]
           ELSE LET eff_fluxes == [li \in 1..n |->
                        EffFlux(band_indices[li], dxs[band_indices[li]],
                                samplewavelengths, seds[li])]
                    offsets == [li \in 1..n |->
                        band_offsets[0][band_indices[li]]]
                IN  call' = [op |-> "process", obs |-> call.obs,
                             steps |-> call.steps, raised |-> "",
                             eff_fluxes |-> eff_fluxes,
                             model_magnitudes |-> abmag(eff_fluxes, offsets)]
    /\ UNCHANGED <<regVars, loadVars, procVars>>

ProcTables ==
    { << [systems |-> <<StrA>>, instruments |-> <<StrA>>,
          filters |-> <<Filter("V", [path |-> <<"V.dat">>])>>],
         [systems |-> <<StrB>>, instruments |-> <<StrB>>,
          filters |-> <<Filter("V", [path |-> <<"R.dat">>, offset |-> 4])>>] >>,
      << [filters |-> <<Filter("V", [path |-> <<"V.dat">>]),
                        Filter("R", [path |-> <<"R.dat">>, offset |-> 4])>>] >>,
      << [filters |-> <<Filter("R", [path |-> <<"R.dat">>])>>],
         [systems |-> <<StrA>>, instruments |-> <<StrA>>,
          filters |-> <<Filter("V", [path |-> <<"V.dat">>])>>] >> }

ProcInit ==
    /\ filterrules \in ProcTables
    /\ bands \in { <<"">>, <<"V">> }
    /\ files = LocalFiles
    /\ Fresh(0)

ProcNext ==
    \/ Filters_init
    \/ For(0)
    \/ Read(0)
    \/ Populate(0)
    \/ Process
    \/ ProcessLoop
    \/ Return

SpecProc == ProcInit /\ [][ProcNext]_vars

(***************************************************************************)
(* The calls specification: one process constructs the object from a rule  *)
(* table of two bands, and its methods are called in any order.            *)
(***************************************************************************)
\* Lines 195-196: band_names returns self._band_names.
BandNames ==
    /\ Constructed
    /\ call = NoCall
    /\ call' = [op |-> "band_names", ret |-> band_names]
    /\ UNCHANGED <<regVars, loadVars, procVars>>

Requests == {"filters", "band_wave_ranges", "photosphere"}

\* Lines 203-208: request returns the object for 'filters', the list of
\* [min, max] pairs for 'band_wave_ranges', and [] for anything else.
Request ==
    /\ Constructed
    /\ call = NoCall
    /\ \E request \in Requests :
          call' = [op |-> "request", request |-> request,
                   ret |-> IF request = "filters" THEN <<"self">>
                           ELSE IF request = "band_wave_ranges"
                           THEN [k \in 1..Len(min_waves[0]) |->
                                    <<min_waves[0][k], max_waves[0][k]>>]
                           ELSE <<>>]
    /\ UNCHANGED <<regVars, loadVars, procVars>>

CallsInit ==
    /\ filterrules =
         << [filters |-> <<Filter("V", [path |-> <<"V.dat">>]),
                           Filter("R", [path |-> <<"R.dat">>,
                                        offset |-> 4])>>] >>
    /\ bands = <<"">>
    /\ files = LocalFiles
    /\ Fresh(0)

CallsNext ==
    \/ Filters_init
    \/ For(0)
    \/ Read(0)
    \/ Populate(0)
    \/ Process
    \/ ProcessLoop
    \/ FindBandIndex
    \/ BandNames
    \/ Request
    \/ Return

SpecCalls == CallsInit /\ [][CallsNext]_vars

(***************************************************************************)
(* The magnitude specification: abmag on an object whose distance term a   *)
(* call of process has set.                                                *)
(***************************************************************************)
MaxFlux == 3
MaxFluxes == 3

Fluxes == { Frac(n, d) : n \in 0..MaxFlux, d \in 1..2 }

\* The object constructed from an empty rule table, after a call of process
\* with no observation at a luminosity distance of 1 or of 10 Mpc.
MagInit ==
    /\ filterrules = <<>>
    /\ bands = <<"">>
    /\ unique_bands = <<>>
    /\ band_insts = <<>>
    /\ band_bsets = <<>>
    /\ band_systs = <<>>
    /\ band_names = <<>>
    /\ phase = "built"
    /\ size = 0
    /\ files = LocalFiles
    /\ pc = (0 :> "done")
    /\ i = (0 :> 1)
    /\ systems = (0 :> <<>>)
    /\ si = (0 :> 0)
    /\ zps = (0 :> <<>>)
    /\ zpfluxes = (0 :> <<>>)
    /\ path = (0 :> <<>>)
    /\ rows = (0 :> <<>>)
    /\ rank = (0 :> 0)
    /\ comm = <<>>
    /\ band_wavelengths = (0 :> <<>>)
    /\ transmissions = (0 :> <<>>)
    /\ min_waves = (0 :> <<>>)
    /\ max_waves = (0 :> <<>>)
    /\ filter_integrals = (0 :> <<>>)
    /\ band_offsets = (0 :> <<>>)
    /\ iolog = <<>>
    /\ sentlog = <<>>
    /\ recvlog = (0 :> <<>>)
    /\ self_bands = <<>>
    /\ band_indices = <<>>
    /\ dxs = <<>>
    /\ dist_const \in { DistConst(1), DistConst(10) }
    /\ self_luminosities = <<>>
    /\ self_systems = <<>>
    /\ self_instruments = <<>>
    /\ self_bandsets = <<>>
    /\ call = NoCall

\* A call of abmag.
Abmag ==
    /\ Constructed
    /\ call = NoCall
    /\ \E n \in 1..MaxFluxes : \E eff_fluxes \in [1..n -> Fluxes] :
       \E offsets \in [1..n -> {0, 4}] :
          call' = [op |-> "abmag", eff_fluxes |-> eff_fluxes,
                   offsets |-> offsets,
                   ret |-> abmag(eff_fluxes, offsets),
                   log10_args |-> log10_args(eff_fluxes, offsets)]
    /\ UNCHANGED <<regVars, loadVars, procVars>>

MagNext == Abmag \/ Return

SpecMag == MagInit /\ [][MagNext]_vars

(***************************************************************************)
(* tde_photosphere.process, tde_photosphere.py lines 19-94.  Lengths,      *)
(* luminosities and times are in units that make G * M_SUN_CGS / C_CGS^2,  *)
(* G * M_SUN_CGS * (DAY_CGS / pi)^2, 4 pi G M_SUN_CGS C_CGS / kappa_t and  *)
(* STEF_CONST equal to 1; a radius is a quotient of two integers, and a    *)
(* temperature of line 80 is held as the luminosity and the radius it is   *)
(* the fourth root of the quotient of.                                     *)
(***************************************************************************)
MaxSamples == 3

\* The cube root, exact on the arguments of the model.
CubeRoot(x) == CHOOSE r \in 0..x : r * r * r = x

Pow(f, l) == Frac(f.num ^ l, f.den ^ l)

\* np.argmax: the first position of the greatest element.
argmax(xs) ==
    CHOOSE k \in 1..Len(xs) :
        /\ \A j \in 1..Len(xs) : xs[j] <= xs[k]
        /\ \A j \in 1..(k - 1) : xs[j] < xs[k]

\* Line 38: the number of luminosities that are not positive.
Ilumzero(luminosities) ==
    Cardinality({ k \in 1..Len(luminosities) : luminosities[k] <= 0 })

\* Lines 41-45.
Ledd(Mh) == Mh
r_isco(Mh) == 6 * Mh

\* Lines 53-54 and 59-60: the semi-major axis of the material that accretes
\* dt days after the first accretion.
SemiMajorAxis(Mh, dt) == CubeRoot(Mh * dt * dt)

\* An upper clamp whose result is kept.
Line73_assigned(rphot2, rphotmax) ==
    [k \in 1..Len(rphot2) |->
        IF Less(rphotmax[k], rphot2[k]) THEN rphotmax[k] ELSE rphot2[k]]

\* Line 73: np.where(rphot2 > rphotmax, rphotmax, rphot2) builds a new array
\* that is bound to no name; rphot2 is as it was.
Line73(rphot2, rphotmax) == rphot2

\* Lines 36-80 for the arrays times and luminosities.
tde_process(times, luminosities, Mh, Rph_0, l) ==
    LET n == Len(luminosities)
        ilumzero == Ilumzero(luminosities)
        rphotmin == Frac(r_isco(Mh), 1)
    IN  IF ilumzero = n
        THEN [radiusphot |-> [k \in 1..n |-> rphotmin],
              temperaturephot |-> [k \in 1..n |-> 0],
              rphotmin |-> rphotmin, rphotmax |-> <<>>, power |-> <<>>]
        ELSE LET tpeak == times[argmax(luminosities)]
                 a_p == SemiMajorAxis(Mh, tpeak - times[ilumzero + 1])
                 rphotmax == [k \in 1..(n - ilumzero) |->
                     Frac(2 * SemiMajorAxis(Mh, times[ilumzero + k]
                                                  - times[ilumzero + 1]), 1)]
                 power == [k \in 1..(n - ilumzero) |->
                     Pow(Frac(Rph_0 * a_p * luminosities[ilumzero + k],
                              Ledd(Mh)), l)]
                 clamped == [k \in 1..(n - ilumzero) |->
                     IF Less(power[k], rphotmin) THEN rphotmin ELSE power[k]]
                 rphot2 == Line73(clamped, rphotmax)
                 rphot == [k \in 1..ilumzero |-> rphotmin] \o rphot2
             IN  [radiusphot |-> rphot,
                  temperaturephot |-> [k \in 1..n |->
                      [luminosity |-> luminosities[k], rphot |-> rphot[k]]],
                  rphotmin |-> rphotmin, rphotmax |-> rphotmax,
                  power |-> power]

\* The light curves of the model: no luminosity until the first accretion,
\* positive from then on; the first accretion at day 0, the later samples
\* at days 1 and 8, the earlier ones on the days before.
LightCurves ==
    { [zeros |-> z, lums |-> ls] :
        z \in 0..2,
        ls \in UNION { [1..m -> 1..3] : m \in 0..MaxSamples } }

RestTimes(z, m) ==
    [k \in 1..(z + m) |->
        IF k <= z THEN k - z - 1 ELSE <<0, 1, 8, 27>>[k - z]]

\* A call of tde_photosphere.process: kwargs['Rph0'] is log10 of Rph_0.
TdeProcess ==
    /\ call = NoCall
    /\ \E lc \in LightCurves, Mh \in {1, 8}, Rph0 \in {0, 1}, l \in {1, 2} :
          LET luminosities == [k \in 1..lc.zeros |-> 0] \o lc.lums
              times == RestTimes(lc.zeros, Len(lc.lums))
          IN  /\ Len(luminosities) > 0
              /\ call' = [op |-> "tde_process", rest_times |-> times,
                          luminosities |-> luminosities, bhmass |-> Mh,
                          Rph0 |-> Rph0, lphoto |-> l,
                          ilumzero |-> Ilumzero(luminosities),
                          ret |-> tde_process(times, luminosities, Mh,
                                              10 ^ Rph0, l)]
    /\ UNCHANGED <<regVars, loadVars, procVars>>

\* The photosphere modules hold no state of the Filters object; it is the
\* constructed object of the magnitude specification.
TdeInit == MagInit /\ dist_const = DistConst(1)

TdeNext == TdeProcess \/ Return

SpecTde == TdeInit /\ [][TdeNext]_vars

(***************************************************************************)
(* TemperatureFloor.process, temperature_floor.py lines 21-54, in units    *)
(* that make STEF_CONST and RAD_CONST equal to 1.  A squared radius is a   *)
(* quotient of two integers; a temperature is held as its fourth power.    *)
(***************************************************************************)
\* The square root, exact on the arguments of the model.
Sqrt(x) == CHOOSE r \in 0..x : r * r = x

\* Line 50: np.sqrt(radius2).
sqrt(f) == Frac(Sqrt(f.num), Sqrt(f.den))

\* The test with its sides exchanged.
Line44_exchanged(radius2, rec_radius2) == Less(rec_radius2, radius2)

\* Line 44: radius2 < rec_radius2.
Line44(radius2, rec_radius2) == Less(radius2, rec_radius2)

\* Lines 31-33 and 34-37.
Radius2(x, v_ejecta, rest_t_explosion) ==
    Frac((v_ejecta * (x - rest_t_explosion)) ^ 2, 1)

RecRadius2(lum, temperature) == Frac(lum, temperature ^ 4)

\* Lines 42-52 for one li.  Line 45 divides by radius2: for radius2 = 0 a
\* float raises ZeroDivisionError and a numpy float gives inf, whichever
\* the caller passed; zerodiv is the one that happens.
TfSample(x, lum, temperature, v_ejecta, rest_t_explosion, zerodiv) ==
    LET radius2 == Radius2(x, v_ejecta, rest_t_explosion)
        rec_radius2 == RecRadius2(lum, temperature)
    IN  IF Line44(radius2, rec_radius2)
        THEN IF radius2.num = 0
             THEN [raised |-> zerodiv = "ZeroDivisionError",
                   rphot |-> sqrt(radius2), Tphot |-> inf]
             ELSE [raised |-> FALSE, rphot |-> sqrt(radius2),
                   Tphot |-> Finite(Frac(lum * radius2.den, radius2.num))]
        ELSE [raised |-> FALSE, rphot |-> sqrt(rec_radius2),
              Tphot |-> Finite(Frac(temperature ^ 4, 1))]

\* A call of TemperatureFloor.process with one time per luminosity.
TfProcess ==
    /\ call = NoCall
    /\ \E n \in 1..MaxSamples :
       \E times \in [1..n -> 0..2], luminosities \in [1..n -> {0, 1, 16}],
          temperature \in {1, 2}, v_ejecta \in {1, 2},
          rest_t_explosion \in {-1, 0},
          zerodiv \in {"ZeroDivisionError", "inf"} :
          LET sample == [li \in 1..n |->
                  TfSample(times[li], luminosities[li], temperature,
                           v_ejecta, rest_t_explosion, zerodiv)]
              raised == \E li \in 1..n : sample[li].raised
          IN  call' = [op |-> "tf_process", rest_times |-> times,
                       luminosities |-> luminosities,
                       temperature |-> temperature, vejecta |-> v_ejecta,
                       resttexplosion |-> rest_t_explosion,
                       raised |-> IF raised THEN "ZeroDivisionError" ELSE "",
                       radiusphot |-> IF raised THEN <<>>
                                      ELSE [li \in 1..n |-> sample[li].rphot],
                       temperaturephot |-> IF raised THEN <<>>
                                      ELSE [li \in 1..n |-> sample[li].Tphot]]
    /\ UNCHANGED <<regVars, loadVars, procVars>>

TfNext == TfProcess \/ Return

SpecTf == TdeInit /\ [][TfNext]_vars

(***************************************************************************)
(* Properties of the registry and of find_band_index.                      *)
(***************************************************************************)
Resolved == call.op = "find_band_index"

Unqualified(bi) ==
    /\ band_insts[bi] = Empty
    /\ band_bsets[bi] = Empty
    /\ band_systs[bi] = Empty

\* C1: when the entries of a band name are a qualified entry (an instrument
\* and a system) and the unqualified default, in either order, a request
\* with the qualified entry's instrument and system resolves to the
\* qualified entry.  Stated of the code; it is violated when the default is
\* registered first.
C1_QualifiedBeforeDefault ==
    Resolved =>
      \A q, d \in 1..Len(unique_bands) :
        ( /\ { bi \in 1..Len(unique_bands) : band_names[bi] = call.name }
               = {q, d}
          /\ q # d
          /\ band_insts[q] # Empty
          /\ band_systs[q] # Empty
          /\ Unqualified(d)
          /\ call.instrument = band_insts[q]
          /\ call.system = band_systs[q] )
        => call.ret = q

\* C2: the registry holds one entry per execution of the innermost loop of
\* the expansion, and the entry at each position carries the name and the
\* (system, instrument, bandset) of its own permutation.  Stated of the
\* code; it is violated by a rule with more than one permutation.
C2_OneEntryPerPermutation ==
    phase = "built" =>
      LET evs == Appends(filterrules, bands)
      IN  /\ Len(unique_bands) = Len(evs)
          /\ \A k \in 1..Len(evs) :
               /\ band_names[k] =
                    filterrules[evs[k].rule].filters[evs[k].filter].key
               /\ <<band_systs[k], band_insts[k], band_bsets[k]>> = evs[k].perm

\* The tiers as section 4.1 of the specification words them: the fourth is
\* an entry whose instrument, bandset and system are all ''.
SatisfiesATier(bi) ==
    /\ band_names[bi] = call.name
    /\ \/ /\ IsIn(call.instrument, band_insts[bi])
          /\ IsIn(call.bandset, band_bsets[bi])
          /\ IsIn(call.system, band_systs[bi])
       \/ /\ IsIn(call.instrument, band_insts[bi])
          /\ IsIn(call.system, band_systs[bi])
       \/ IsIn(call.system, band_systs[bi])
       \/ Unqualified(bi)

\* C7: find_band_index raises exactly when no entry satisfies a tier; an
\* index it returns is of an entry of the requested name; an unqualified
\* request against a single entry of the name returns that entry.  Stated
\* of the code; it is violated by a request whose system no entry of the
\* name has, which the code resolves to a qualified entry of the name.
C7_RaisesIffNoTier ==
    Resolved =>
      /\ (call.ret = ValueError) <=>
            ~ \E bi \in 1..Len(unique_bands) : SatisfiesATier(bi)
      /\ call.ret # ValueError =>
            /\ call.ret \in 1..Len(unique_bands)
            /\ band_names[call.ret] = call.name
      /\ \A k \in 1..Len(unique_bands) :
            ( /\ { bi \in 1..Len(unique_bands) :
                     band_names[bi] = call.name } = {k}
              /\ call.instrument = Empty
              /\ call.bandset = Empty
              /\ call.system = Empty )
            => call.ret = k

(***************************************************************************)
(* Properties of the construction by a master and its workers.             *)
(***************************************************************************)
NBands == Len(unique_bands)

\* Process p has populated its entry of band k (it is past line 147 for k).
Populated(p, k) == phase = "built" /\ i[p] > k

Entry(p, k) ==
    [wavelengths |-> band_wavelengths[p][k],
     transmission |-> transmissions[p][k],
     min_wavelength |-> min_waves[p][k],
     max_wavelength |-> max_waves[p][k],
     integral |-> filter_integrals[p][k],
     offset |-> band_offsets[p][k]]

AllDone == phase = "built" /\ \A p \in Procs : pc[p] = "done"

\* C3: the entry a worker has populated for band k equals the entry the
\* master has populated for band k.
C3_WorkerEqualsMaster ==
    \A w \in 1..size : \A k \in 1..NBands :
        Populated(w, k) /\ Populated(0, k) => Entry(w, k) = Entry(0, k)

\* C3 witness: two workers and the master have constructed a registry of
\* bands with different curves.
C3_Witness ==
    /\ AllDone
    /\ size >= 2
    /\ \E j, k \in 1..NBands :
          /\ Entry(0, j) # Entry(0, k)
          /\ Entry(2, j) = Entry(0, j)
          /\ Entry(2, k) = Entry(0, k)

\* The cached files of the catalog path the master is at in line 74.
CurrentSvoPath(p) == svopath(unique_bands[i[p]], systems[p][si[p]])

\* C4: a failed fetch is fatal only when no cached file of the catalog path
\* exists, and then the band stays unpopulated; with a cached file the load
\* goes on.  Stated of the code; it is violated when the curve file of the
\* path is cached and the catalog file is not.
C4_FatalOnlyWithoutCache ==
    \A p \in Procs :
        (phase = "built" /\ pc[p] = "RuntimeError") =>
            /\ XmlPath(CurrentSvoPath(p)) \notin DOMAIN files
            /\ DatPath(CurrentSvoPath(p)) \notin DOMAIN files
            /\ band_wavelengths[p][i[p]] = <<>>

Count(log, P(_)) == Cardinality({ k \in 1..Len(log) : P(log[k]) })

\* C5: every file and network operation is the master's; for a band no
\* curve file is read twice, no catalog path fetched twice and no cache file
\* written twice; and when the master is done the curve file of every band
\* was read exactly once.
C5_LoadOnceByMaster ==
    /\ \A k \in 1..Len(iolog) : iolog[k].proc = 0
    /\ \A j, k \in 1..Len(iolog) :
          ( /\ j # k
            /\ iolog[j].op \in {"read", "fetch", "write"}
            /\ iolog[j].op = iolog[k].op
            /\ iolog[j].band = iolog[k].band )
          => /\ iolog[j].op # "read"
             /\ iolog[j].file # iolog[k].file
    /\ (phase = "built" /\ pc[0] = "done") =>
          \A b \in 1..NBands :
             Count(iolog, LAMBDA e : e.band = b /\ e.op = "read") = 1

\* C5 witness: the master and two workers are done, with a band fetched.
C5_Witness ==
    /\ AllDone
    /\ size >= 2
    /\ NBands >= 2
    /\ \E k \in 1..Len(iolog) : iolog[k].op = "fetch"

\* The messages of the bands 1..n in the order the master sends them to one
\* worker.
SendOrder(n) ==
    [k \in 1..(2 * n) |-> [band |-> (k + 1) \div 2,
                           tag |-> IF k % 2 = 1 THEN 3 ELSE 4]]

IsPrefix(s, t) == Len(s) <= Len(t) /\ SubSeq(t, 1, Len(s)) = s

\* C6: the master reads the curve files in registry order; what it has sent
\* to a worker is a prefix of the messages of the bands in registry order;
\* a worker receives for its band k the messages sent for band k, and the
\* bands it has populated are a prefix of the registry, each populated after
\* both its messages were received.
C6_RegistryOrder ==
    /\ \A j, k \in 1..Len(iolog) :
          (j < k /\ iolog[j].op = "read" /\ iolog[k].op = "read")
             => iolog[j].band < iolog[k].band
    /\ \A w \in 1..size :
          /\ IsPrefix(sentlog[w], SendOrder(NBands))
          /\ IsPrefix([k \in 1..Len(recvlog[w]) |->
                         [band |-> recvlog[w][k].band,
                          tag |-> recvlog[w][k].tag]], SendOrder(NBands))
          /\ \A k \in 1..Len(recvlog[w]) :
                recvlog[w][k].sent = recvlog[w][k].band
          /\ phase = "built" =>
                \A k \in 1..NBands :
                   /\ (band_wavelengths[w][k] # <<>>) <=> (k < i[w])
                   /\ (band_wavelengths[w][k] # <<>>) =>
                         Len(recvlog[w]) >= 2 * k

\* C6 witness: the master has sent a worker the messages of two bands while
\* the worker has populated only the first.
C6_Witness ==
    /\ phase = "built"
    /\ size >= 2
    /\ Len(sentlog[2]) >= 4
    /\ i[2] = 2
    /\ band_wavelengths[2][1] # <<>>

\* The ZeroPoint of a cached catalog file.
ZeroPointOf(sp) ==
    LET ps == files[XmlPath(sp)].params
    IN  ps[CHOOSE k \in 1..Len(ps) : ps[k].name = "ZeroPoint"].value

\* The offset the claim gives a band: explicit, else derived, else 0.
ClaimedOffset(band) ==
    IF "offset" \in DOMAIN band THEN band.offset
    ELSE IF "SVO" \in DOMAIN band
         THEN IF photsystem(band) = "AB" THEN 0
              ELSE 5 * log10(ZeroPointOf(svopath(band, "AB")),
                             ZeroPointOf(svopath(band, photsystem(band))))
    ELSE 0

\* C8: on the master and on every worker the offset of a populated band is
\* the explicit offset, else for a catalog band the derived one (0 for an AB
\* band), else 0.
C8_OffsetPriority ==
    \A p \in Procs : \A k \in 1..NBands :
        Populated(p, k) => band_offsets[p][k] = ClaimedOffset(unique_bands[k])

\* C8 witness: a worker holds a catalog band with an explicit offset, and a
\* catalog band with a derived offset other than 0.
C8_Witness ==
    /\ AllDone
    /\ size >= 1
    /\ \E j \in 1..NBands :
          /\ {"SVO", "offset"} \subseteq DOMAIN unique_bands[j]
          /\ band_offsets[1][j] = unique_bands[j].offset
    /\ \E k \in 1..NBands :
          /\ "SVO" \in DOMAIN unique_bands[k]
          /\ "offset" \notin DOMAIN unique_bands[k]
          /\ band_offsets[1][k] # 0

(***************************************************************************)
(* Properties of process and abmag.                                        *)
(***************************************************************************)
Processed == call.op = "process" /\ call.raised = ""

\* Registry entry bi is the entry of the name qualified by the instrument
\* and the system of observation o.
OwnEntry(bi, o) ==
    /\ band_names[bi] = o.name
    /\ band_insts[bi] = o.qual
    /\ band_systs[bi] = o.qual

\* C9: of two observations of one band name with different instruments and
\* systems, each with a registry entry qualified for it, process resolves
\* each to its own entry.  Stated of the code; it is violated because line
\* 170 passes the name alone, and both resolve to the first entry of the
\* name.
C9_OwnQualifiedEntry ==
    Processed =>
      \A j, k \in 1..Len(call.obs) :
        ( /\ call.obs[j].name = call.obs[k].name
          /\ call.obs[j].qual # call.obs[k].qual
          /\ \E bi \in 1..NBands : OwnEntry(bi, call.obs[j])
          /\ \E bi \in 1..NBands : OwnEntry(bi, call.obs[k]) )
        => /\ OwnEntry(band_indices[j], call.obs[j])
           /\ OwnEntry(band_indices[k], call.obs[k])

\* C10: abmag gives +infinity for a flux of 0 and takes no logarithm of 0;
\* for a positive flux the magnitude is finite, and of two positive fluxes
\* with one offset the smaller has the greater magnitude.
C10_InfinityAndMonotone ==
    call.op = "abmag" =>
      /\ \A k \in 1..Len(call.ret) :
            /\ call.eff_fluxes[k].num = 0 => call.ret[k] = inf
            /\ call.eff_fluxes[k].num > 0 => call.ret[k].finite
      /\ Len(call.ret) = Len(call.eff_fluxes)
      /\ \A k \in 1..Len(call.log10_args) : call.log10_args[k].num # 0
      /\ \A j, k \in 1..Len(call.ret) :
            ( /\ call.eff_fluxes[j].num > 0
              /\ Less(call.eff_fluxes[j], call.eff_fluxes[k])
              /\ call.offsets[j] = call.offsets[k] )
            => call.ret[j].value > call.ret[k].value

\* C10 witness: one call with a flux of 0 and two different positive fluxes
\* with one offset.
C10_Witness ==
    /\ call.op = "abmag"
    /\ \E z, j, k \in 1..Len(call.ret) :
          /\ call.eff_fluxes[z].num = 0
          /\ call.ret[z] = inf
          /\ call.eff_fluxes[j].num > 0
          /\ Less(call.eff_fluxes[j], call.eff_fluxes[k])
          /\ call.offsets[j] = call.offsets[k]
          /\ call.ret[j].value > call.ret[k].value

\* The magnitude of observation k of a process call from the observation's
\* own data: its SED, and the grid, curve, integral and offset of the band
\* it resolved to.
OwnMagnitude(k) ==
    LET bi == band_indices[k]
        samplewavelengths == SampleWavelengths(call.steps)
        wavs == samplewavelengths[bi]
        seds == Seds(call.obs, band_indices, samplewavelengths)
    IN  abmag_element(EffFlux(bi, wavs[2] - wavs[1], samplewavelengths,
                              seds[k]),
                      band_offsets[0][bi]).mag

\* C11: a process call whose every band name is in the registry returns one
\* magnitude per observation, the magnitude at position k computed from the
\* data of observation k.  Stated of the code; it is violated because line
\* 191 takes the step of position bi of a list with one step per observation.
C11_OneMagnitudePerObservation ==
    (call.op = "process" /\ call.raised \notin {"line 180", "ValueError"}) =>
        /\ call.raised = ""
        /\ Len(call.model_magnitudes) = Len(call.obs)
        /\ \A k \in 1..Len(call.obs) :
              call.model_magnitudes[k] = OwnMagnitude(k)

(***************************************************************************)
(* Properties of the calls on the constructed object.                      *)
(***************************************************************************)
\* The band list with every band's name and qualifiers, and every band's
\* wavelengths, transmission, min/max wavelength, integral and offset.
Registry == <<unique_bands, band_names, band_insts, band_bsets, band_systs,
              derivedVars>>

\* C12: once construction has finished, no step of process, find_band_index,
\* band_names or request changes the registry.
C12_RegistryUnchanged == [][Constructed => Registry' = Registry]_vars

\* C12 witness: a process call has returned its magnitudes for two
\* observations.
C12_Witness ==
    /\ Processed
    /\ Len(call.model_magnitudes) = 2
    /\ band_names = <<"V", "R">>

(***************************************************************************)
(* Properties of the end of the construction.                              *)
(***************************************************************************)
\* Worker w waits in a receive of line 134 or 135.
Receiving(w) == pc[w] \in {"recv3", "recv4"}

\* C13: when the master has raised RuntimeError and the run can take no
\* further step, no worker is still waiting in a receive.  Stated of the
\* code; it is violated because nothing tells the workers of the error.
C13_NoWorkerLeftWaiting ==
    (phase = "built" /\ pc[0] = "RuntimeError" /\ ~ENABLED Next) =>
        \A w \in 1..size : ~Receiving(w)

\* C14: the curve of a populated band has as many wavelengths as
\* transmissions and at least one, its wavelengths are strictly increasing,
\* and its min and max wavelength are the first and the last of them.
\* Stated of the code; it is violated because the rows are stored in the
\* order of the file.
C14_SortedCurve ==
    \A p \in Procs : \A k \in 1..NBands :
        Populated(p, k) =>
            LET wl == band_wavelengths[p][k]
            IN  /\ Len(wl) = Len(transmissions[p][k])
                /\ Len(wl) > 0
                /\ \A j \in 1..(Len(wl) - 1) : wl[j] < wl[j + 1]
                /\ min_waves[p][k] = wl[1]
                /\ max_waves[p][k] = wl[Len(wl)]

(***************************************************************************)
(* Properties of the integration step.                                     *)
(***************************************************************************)
\* The spacing of the first two points of the sampling grid of band bi in
\* the call at hand.
GridStep(bi) ==
    SampleWavelengths(call.steps)[bi][2] - SampleWavelengths(call.steps)[bi][1]

\* C15: in a process call whose every band name is in the registry, line 191
\* reads a position of the list of steps that exists, and the step it reads
\* for observation k is the spacing of the grid of the band k resolved to.
\* Stated of the code; it is violated because the list holds one step per
\* observation and is read at the band index.
C15_StepOfOwnBand ==
    (call.op = "process" /\ call.raised \notin {"line 180", "ValueError"}) =>
        \A k \in 1..Len(band_indices) :
            /\ band_indices[k] <= Len(dxs)
            /\ dxs[band_indices[k]] = GridStep(band_indices[k])

(***************************************************************************)
(* Properties of the catalog cache.                                        *)
(***************************************************************************)
\* The events a step adds to the log of file and network operations.
NewEvents == { iolog'[k] : k \in (Len(iolog) + 1)..Len(iolog') }

\* C16: a step fetches a catalog path only when the catalog file of that
\* path is not cached; and a catalog band fails to load only at a path whose
\* catalog file is missing, so with the catalog files of both systems
\* cached the band loads without a fetch.
C16_FetchOnlyWithoutCache ==
    /\ [][\A e \in NewEvents :
             e.op = "fetch" => XmlPath(e.file) \notin DOMAIN files]_vars
    /\ [](\A p \in Procs :
            /\ (phase = "built" /\ pc[p] = "RuntimeError") =>
                  XmlPath(CurrentSvoPath(p)) \notin DOMAIN files
            /\ (phase = "built" /\ pc[p] = "IOError") =>
                  "SVO" \notin DOMAIN unique_bands[i[p]])

\* C16 witness: the master has loaded a catalog band of the Vega system from
\* cached catalog files, with no fetch.
C16_Witness ==
    /\ phase = "built"
    /\ pc[0] = "done"
    /\ \E k \in 1..NBands :
          /\ "SVO" \in DOMAIN unique_bands[k]
          /\ photsystem(unique_bands[k]) = "Vega"
          /\ band_wavelengths[0][k] # <<>>
    /\ \A k \in 1..Len(iolog) : iolog[k].op # "fetch"
    /\ \E k \in 1..Len(iolog) : iolog[k].op = "voparse"

(***************************************************************************)
(* Properties of the termination of the construction.                      *)
(***************************************************************************)
LoadFailed == phase = "built" /\ pc[0] \in {"RuntimeError", "IOError"}

\* C17: unless a load of the master fails, the master and every worker
\* finish; when all have finished every band of every process is populated,
\* the master has sent each worker one rows and one zero-point message per
\* band, each worker has received one of each per band, and no message is
\* left in a queue; in a pool of size 0 the master never sends.
C17_AllFinishNothingLeft ==
    /\ <>(AllDone \/ LoadFailed)
    /\ [](AllDone =>
            /\ \A p \in Procs : \A k \in 1..NBands :
                  band_wavelengths[p][k] # <<>>
            /\ \A w \in 1..size :
                  /\ sentlog[w] = SendOrder(NBands)
                  /\ [k \in 1..Len(recvlog[w]) |->
                         [band |-> recvlog[w][k].band,
                          tag |-> recvlog[w][k].tag]] = SendOrder(NBands)
                  /\ comm[w][3] = <<>>
                  /\ comm[w][4] = <<>>)
    /\ [](size = 0 => \A p \in Procs : pc[p] \notin {"send3", "send4"})

\* C17 witness: the master and two workers have finished a registry of two
\* or more bands, and the queues of the second worker are empty.
C17_Witness ==
    /\ AllDone
    /\ size = 2
    /\ NBands >= 2
    /\ Len(recvlog[2]) = 2 * NBands
    /\ comm[2][3] = <<>>
    /\ comm[2][4] = <<>>

(***************************************************************************)
(* Properties of the photospheres.                                         *)
(***************************************************************************)
\* C18: every radius tde_photosphere.process returns is at least rphotmin;
\* before the first accretion it is rphotmin, from then on it is the
\* power-law value, or rphotmin when that is below it, also when the value
\* is above rphotmax = 2 * a_t.
C18_LowerClampOnly ==
    call.op = "tde_process" =>
        /\ Len(call.ret.radiusphot) = Len(call.luminosities)
        /\ \A k \in 1..Len(call.ret.radiusphot) :
              LET r == call.ret.radiusphot[k]
                  j == k - call.ilumzero
              IN  /\ ~Less(r, call.ret.rphotmin)
                  /\ call.luminosities[k] = 0 => r = call.ret.rphotmin
                  /\ call.luminosities[k] > 0 =>
                        r = IF Less(call.ret.power[j], call.ret.rphotmin)
                            THEN call.ret.rphotmin
                            ELSE call.ret.power[j]

\* C18 witness: one call returns a radius before the first accretion, a
\* radius raised to rphotmin, and a radius above rphotmax.
C18_Witness ==
    /\ call.op = "tde_process"
    /\ call.ilumzero > 0
    /\ \E j, k \in 1..Len(call.ret.power) :
          /\ Less(call.ret.power[j], call.ret.rphotmin)
          /\ call.ret.radiusphot[call.ilumzero + j] = call.ret.rphotmin
          /\ Less(call.ret.rphotmax[k], call.ret.power[k])
          /\ call.ret.radiusphot[call.ilumzero + k] = call.ret.power[k]
          /\ Less(call.ret.rphotmin, call.ret.power[k])

\* The squares of the two radii of sample li of a call.
Expansion2(li) ==
    Radius2(call.rest_times[li], call.vejecta, call.resttexplosion)

Recession2(li) == RecRadius2(call.luminosities[li], call.temperature)

Square(f) == Frac(f.num * f.num, f.den * f.den)

\* C19: when TemperatureFloor.process returns, it returns one radius and
\* one temperature per luminosity; the square of radius li is the smaller
\* of the squared expansion and recession radius of sample li; temperature
\* li is not below the floor, and it is the floor exactly when the
\* expansion radius is not smaller than the recession radius.
C19_FloorAndSmallerRadius ==
    (call.op = "tf_process" /\ call.raised = "") =>
        /\ Len(call.radiusphot) = Len(call.luminosities)
        /\ Len(call.temperaturephot) = Len(call.luminosities)
        /\ \A li \in 1..Len(call.luminosities) :
              LET floor4 == Frac(call.temperature ^ 4, 1)
                  T == call.temperaturephot[li]
              IN  /\ Square(call.radiusphot[li]) =
                        IF Less(Expansion2(li), Recession2(li))
                        THEN Expansion2(li) ELSE Recession2(li)
                  /\ T.finite => ~Less(T.value, floor4)
                  /\ (T = Finite(floor4)) <=>
                        ~Less(Expansion2(li), Recession2(li))

\* C19 witness: one call returns a sample above the floor and a sample at
\* the floor, with different radii.
C19_Witness ==
    /\ call.op = "tf_process"
    /\ call.raised = ""
    /\ \E j, k \in 1..Len(call.luminosities) :
          /\ Less(Expansion2(j), Recession2(j))
          /\ call.temperaturephot[j].finite
          /\ Less(Frac(call.temperature ^ 4, 1), call.temperaturephot[j].value)
          /\ Less(Recession2(k), Expansion2(k))
          /\ call.temperaturephot[k] = Finite(Frac(call.temperature ^ 4, 1))
          /\ Square(call.radiusphot[k]) = Recession2(k)

====
